---- MODULE Spec2Model ----
(***************************************************************************)
(* Log sub-resources of the SDK: sdk/invoice/log/log.js,                   *)
(* sdk/corporateCard/log/log.js and sdk/utilityPayment/log/log.js.         *)
(* Each module holds a Log class, a module-level resource descriptor and   *)
(* the async functions get, query, page (and pdf for the invoice log),     *)
(* which build a query object and hand it to utils/rest.js.                *)
(*                                                                         *)
(* utils/rest.js, utils/check.js and utils/resource.js are not among the   *)
(* sources; the definitions that stand for them follow the written         *)
(* specification (sections 4 and 6) and are marked "specification" below.  *)
(***************************************************************************)
EXTENDS Integers, Sequences, FiniteSets, TLC

VARIABLES
    remote,     \* resource name -> the remote collection, in server order
    resource,   \* kind -> the module-level `let resource` descriptor
    task        \* caller task -> its current call (arguments, request, result)

vars == <<remote, resource, task>>

---------------------------------------------------------------------------
(* Bounds of the model.                                                    *)

\* Number of caller tasks that may have calls in flight at once.
MaxTasks == 2

\* Largest remote collection all of whose sizes below it are explored.
MaxSmall == 3

\* How many records past a page boundary the large collections reach.
MaxExtra == 1

(* Constant of the API.                                                    *)

\* Page size: page returns "a list of up to 100 ... objects".
PageCap == 100

Tasks == 1..MaxTasks

Kinds == {"Invoice", "CorporateCard", "UtilityPayment"}

---------------------------------------------------------------------------
(* JavaScript values.  Every value is a tuple whose first element is its   *)
(* tag, so that values of different sorts can be compared.                 *)

Undefined == <<"undefined">>
Null == <<"null">>
\* A property the caller's options object does not have.
Absent == <<"absent">>
Val(x) == <<"value", x>>
Obj(o) == <<"object", o>>
Err(name) == <<"error", name>>
None == <<"none">>

IsVal(v) == v[1] = "value"
IsErr(v) == v[1] = "error"
Nullish(v) == v[1] \in {"undefined", "null", "absent"}

EmptyObject == [n \in {} |-> Undefined]

Min(a, b) == IF a <= b THEN a ELSE b

\* Reading property `name` of object `o` (a function over its own names).
Prop(o, name) == IF name \in DOMAIN o THEN o[name] ELSE Undefined

\* Destructuring  { name = default }  of the options object: the default
\* applies when the property is missing or undefined, not when it is null.
Destructure(opts, name, default) ==
    IF Prop(opts, name) = Absent \/ Prop(opts, name) = Undefined
    THEN default
    ELSE Prop(opts, name)

---------------------------------------------------------------------------
(* utils/check.js and utils/resource.js (specification, section 4.1).      *)
(* A timestamp string is modelled by the numbers written in it,            *)
(* <<year, month, day>>; parsing checks them and builds the structured     *)
(* timestamp.                                                              *)

DaysIn(month) ==
    IF month = 2 THEN 29
    ELSE IF month \in {4, 6, 9, 11} THEN 30 ELSE 31

Parseable(s) ==
    /\ Len(s) = 3
    /\ s[2] \in 1..12
    /\ s[3] \in 1..DaysIn(s[2])

\* check.date / check.datetime: the parsed timestamp, or ValidationError.
checkDate(input) ==
    IF IsVal(input) /\ Parseable(input[2])
    THEN <<"timestamp", [year |-> input[2][1], month |-> input[2][2], day |-> input[2][3]]>>
    ELSE Err("ValidationError")

\* Resource base class: stores the id.
ResourceId(id) == id

---------------------------------------------------------------------------
(* The Log classes.  `args` is the argument list of `new Log(...)`.        *)

Arg(args, i) == IF i <= Len(args) THEN args[i] ELSE Undefined

\* Properties of the object given as first argument ({a, b} destructuring).
Field(args, name) ==
    IF Arg(args, 1)[1] = "object" THEN Prop(Arg(args, 1)[2], name) ELSE Undefined

ParentField(kind) ==
    CASE kind = "Invoice" -> "invoice"
      [] kind = "CorporateCard" -> "card"
      [] kind = "UtilityPayment" -> "payment"

HasErrors(kind) == kind \in {"Invoice", "UtilityPayment"}

EntityFields(kind) ==
    {"id", "created", "type", ParentField(kind)}
        \cup (IF HasErrors(kind) THEN {"errors"} ELSE {})

\* invoice/log/log.js: constructor({ created, type, errors, invoice, id })
InvoiceLog(args) ==
    LET created == checkDate(Field(args, "created")) IN
    IF IsErr(created) THEN created
    ELSE <<"entity", [id |-> ResourceId(Field(args, "id")),
                      created |-> created,
                      type |-> Field(args, "type"),
                      errors |-> Field(args, "errors"),
                      invoice |-> Field(args, "invoice")]>>

\* corporateCard/log/log.js: constructor({ id, card, type, created })
CorporateCardLog(args) ==
    LET created == checkDate(Field(args, "created")) IN
    IF IsErr(created) THEN created
    ELSE <<"entity", [id |-> ResourceId(Field(args, "id")),
                      card |-> Field(args, "card"),
                      type |-> Field(args, "type"),
                      created |-> created]>>

\* utilityPayment/log/log.js: constructor(created, type, errors, payment, id = null)
UtilityPaymentLog(args) ==
    <<"entity", [id |-> ResourceId(IF Arg(args, 5) = Undefined THEN Null ELSE Arg(args, 5)),
                 created |-> Arg(args, 1),
                 type |-> Arg(args, 2),
                 errors |-> Arg(args, 3),
                 payment |-> Arg(args, 4)]>>

\* new Log(...) of the kind's module.
NewLog(kind, args) ==
    CASE kind = "Invoice" -> InvoiceLog(args)
      [] kind = "CorporateCard" -> CorporateCardLog(args)
      [] kind = "UtilityPayment" -> UtilityPaymentLog(args)

---------------------------------------------------------------------------
(* Module-level resource descriptors: let resource = {class, name}.        *)

ResourceOf(kind) ==
    CASE kind = "Invoice" -> [class |-> "invoice.Log", name |-> "InvoiceLog"]
      [] kind = "CorporateCard" -> [class |-> "corporateCard.Log", name |-> "corporateCardLog"]
      [] kind = "UtilityPayment" -> [class |-> "utilityPayment.Log", name |-> "UtilityPaymentLog"]

ResourceNames == {ResourceOf(k).name : k \in Kinds}

KindOfName(name) == CHOOSE k \in Kinds : ResourceOf(k).name = name

---------------------------------------------------------------------------
(* The query objects built by query and page.                              *)

ParentIdsField(kind) ==
    CASE kind = "Invoice" -> "invoiceIds"
      [] kind = "CorporateCard" -> "cardIds"
      [] kind = "UtilityPayment" -> "paymentIds"

\* Every option name a caller may put in the options object.
OptionNames ==
    {"cursor", "limit", "after", "before", "types", "ids", "user",
     "invoiceIds", "cardIds", "paymentIds"}

\* invoice/log/log.js query: { limit, after, before, types, invoiceIds, user } = {}
invoiceQuery(opts) ==
    [limit |-> Destructure(opts, "limit", Undefined),
     after |-> Destructure(opts, "after", Undefined),
     before |-> Destructure(opts, "before", Undefined),
     types |-> Destructure(opts, "types", Undefined),
     invoiceIds |-> Destructure(opts, "invoiceIds", Undefined)]

\* corporateCard/log/log.js query: {limit, cardIds, types, after, before, ids, user} = {}
corporateCardQuery(opts) ==
    [ids |-> Destructure(opts, "ids", Undefined),
     limit |-> Destructure(opts, "limit", Undefined),
     after |-> Destructure(opts, "after", Undefined),
     before |-> Destructure(opts, "before", Undefined),
     types |-> Destructure(opts, "types", Undefined),
     cardIds |-> Destructure(opts, "cardIds", Undefined)]

\* utilityPayment/log/log.js query: every option defaults to null.
utilityPaymentQuery(opts) ==
    [limit |-> Destructure(opts, "limit", Null),
     after |-> Destructure(opts, "after", Null),
     before |-> Destructure(opts, "before", Null),
     types |-> Destructure(opts, "types", Null),
     paymentIds |-> Destructure(opts, "paymentIds", Null)]

\* invoice/log/log.js page: { cursor, limit, after, before, types, invoiceIds, user } = {}
invoicePage(opts) ==
    [cursor |-> Destructure(opts, "cursor", Undefined),
     limit |-> Destructure(opts, "limit", Undefined),
     after |-> Destructure(opts, "after", Undefined),
     before |-> Destructure(opts, "before", Undefined),
     types |-> Destructure(opts, "types", Undefined),
     invoiceIds |-> Destructure(opts, "invoiceIds", Undefined)]

\* corporateCard/log/log.js page: {cursor, limit, after, before, types, cardIds, ids, user} = {}
corporateCardPage(opts) ==
    [cursor |-> Destructure(opts, "cursor", Undefined),
     limit |-> Destructure(opts, "limit", Undefined),
     after |-> Destructure(opts, "after", Undefined),
     before |-> Destructure(opts, "before", Undefined),
     types |-> Destructure(opts, "types", Undefined),
     cardIds |-> Destructure(opts, "cardIds", Undefined),
     ids |-> Destructure(opts, "ids", Undefined)]

\* utilityPayment/log/log.js page: every option defaults to null.
utilityPaymentPage(opts) ==
    [cursor |-> Destructure(opts, "cursor", Null),
     limit |-> Destructure(opts, "limit", Null),
     after |-> Destructure(opts, "after", Null),
     before |-> Destructure(opts, "before", Null),
     types |-> Destructure(opts, "types", Null),
     paymentIds |-> Destructure(opts, "paymentIds", Null)]

\* Faulty variant: the query object is built without the caller's limit.
queryFilterNoLimit(kind, opts) ==
    [(CASE kind = "Invoice" -> invoiceQuery(opts)
        [] kind = "CorporateCard" -> corporateCardQuery(opts)
        [] kind = "UtilityPayment" -> utilityPaymentQuery(opts))
     EXCEPT !["limit"] = Null]

\* Faulty variant: the query object is built without the caller's types.
queryFilterNoTypes(kind, opts) ==
    [(CASE kind = "Invoice" -> invoiceQuery(opts)
        [] kind = "CorporateCard" -> corporateCardQuery(opts)
        [] kind = "UtilityPayment" -> utilityPaymentQuery(opts))
     EXCEPT !["types"] = Null]

\* The `let query = {...}` of the kind's query function.
queryFilter(kind, opts) ==
    CASE kind = "Invoice" -> invoiceQuery(opts)
      [] kind = "CorporateCard" -> corporateCardQuery(opts)
      [] kind = "UtilityPayment" -> utilityPaymentQuery(opts)

\* Faulty variant: the query object is built without the caller's cursor.
pageFilterNoCursor(kind, opts) ==
    [(CASE kind = "Invoice" -> invoicePage(opts)
        [] kind = "CorporateCard" -> corporateCardPage(opts)
        [] kind = "UtilityPayment" -> utilityPaymentPage(opts))
     EXCEPT !["cursor"] = Null]

\* The `let query = {...}` of the kind's page function.
pageFilter(kind, opts) ==
    CASE kind = "Invoice" -> invoicePage(opts)
      [] kind = "CorporateCard" -> corporateCardPage(opts)
      [] kind = "UtilityPayment" -> utilityPaymentPage(opts)

\* The `user` handed to rest.js by query and page.
listUser(kind, opts) ==
    Destructure(opts, "user", IF kind = "UtilityPayment" THEN Null ELSE Undefined)

\* The `user` handed to rest.js by get and pdf:  {user} = {}  in every module.
idUser(opts) == Destructure(opts, "user", Undefined)

---------------------------------------------------------------------------
(* The gateway, utils/rest.js (specification, sections 4.2-4.5 and 6).     *)

\* The remote collection behind a resource name; none for an unknown name.
Collection(name) == IF name \in DOMAIN remote THEN remote[name] ELSE <<>>

\* Timestamps compare by year, month, day.
DateLeq(a, b) ==
    \/ a[1] < b[1]
    \/ a[1] = b[1] /\ a[2] < b[2]
    \/ a[1] = b[1] /\ a[2] = b[2] /\ a[3] <= b[3]

\* The record passes every filter of the query object; a filter that is
\* missing, undefined or null does not restrict.
Matches(name, query, rec) ==
    LET kind == KindOfName(name)
        types == Prop(query, "types")
        after == Prop(query, "after")
        before == Prop(query, "before")
        parents == Prop(query, ParentIdsField(kind))
        ids == Prop(query, "ids")
    IN
    /\ Nullish(types) \/ rec["type"][2] \in types[2]
    /\ Nullish(after) \/ DateLeq(after[2], rec["created"][2])
    /\ Nullish(before) \/ DateLeq(rec["created"][2], before[2])
    /\ Nullish(parents) \/ rec[ParentField(kind)][2] \in parents[2]
    /\ Nullish(ids) \/ rec["id"][2] \in ids[2]

Filtered(name, query) ==
    SelectSeq(Collection(name), LAMBDA rec : Matches(name, query, rec))

\* Raw record to entity of the descriptor's class.
ToEntity(res, rec) == [class |-> res.class, fields |-> rec]

\* Position a cursor stands for; a missing, undefined or null cursor is the start.
Offset(cursor) == IF IsVal(cursor) THEN cursor[2] ELSE 0

\* Size of the page a query object asks for: its limit, at most PageCap.
PageSize(query) ==
    IF IsVal(Prop(query, "limit")) THEN Min(PageCap, Prop(query, "limit")[2]) ELSE PageCap

\* fetchPage: one page of at most PageCap entities and the next cursor.
FetchPage(res, query) ==
    LET all == Filtered(res.name, query)
        from == Offset(Prop(query, "cursor"))
        upto == Min(from + PageSize(query), Len(all))
        recs == SubSeq(all, from + 1, upto)
    IN <<"page",
         [i \in 1..Len(recs) |-> ToEntity(res, recs[i])],
         IF upto < Len(all) THEN Val(upto) ELSE Null>>

\* fetchById: the entity, or NotFound.
FetchById(res, id) ==
    LET hits == SelectSeq(Collection(res.name), LAMBDA rec : rec.id = id) IN
    IF hits = <<>> THEN Err("NotFound") ELSE <<"entity", ToEntity(res, hits[1])>>

\* fetchBinary: the bytes of the document of a log, or NotFound.
FetchBinary(res, id) ==
    IF IsErr(FetchById(res, id)) THEN Err("NotFound") ELSE <<"bytes", res.name, id>>

\* Errors the gateway may raise whatever the request.
GatewayFailures == {Err("AuthError"), Err("TransportError"), Err("RateLimitError")}

\* What the gateway answers to a request when it does not fail.
Answer(req) ==
    CASE req.fn = "getId" -> FetchById(req.resource, req.id)
      [] req.fn = "getPdf" -> FetchBinary(req.resource, req.id)
      [] req.fn \in {"getPage", "getList"} -> FetchPage(req.resource, req.query)

---------------------------------------------------------------------------
(* The lazy sequence of rest.getList (specification, section 4.3): it      *)
(* walks the pages of the gateway as the caller advances it, until limit   *)
(* items have been yielded or the collection is exhausted.                 *)

\* The sequence as created: nothing fetched yet.
NewSequence(res, query, user) ==
    [resource |-> res, query |-> query, user |-> user,
     cursor |-> Null,
     remaining |-> IF IsVal(Prop(query, "limit")) THEN Prop(query, "limit") ELSE Null,
     buffer |-> <<>>,
     more |-> TRUE]

\* Whether advancing the sequence has to fetch a page.
NeedsFetch(it) ==
    /\ it.buffer = <<>>
    /\ it.more
    /\ (IsVal(it.remaining) => it.remaining[2] > 0)

\* The query object of the next page fetch of the sequence.
NextPageQuery(it) ==
    [n \in (DOMAIN it.query) \cup {"cursor", "limit"} |->
        CASE n = "cursor" -> it.cursor
          [] n = "limit" -> IF IsVal(it.remaining)
                            THEN Val(Min(PageCap, it.remaining[2]))
                            ELSE Val(PageCap)
          [] OTHER -> it.query[n]]

\* The sequence after a fetched page <<"page", entities, cursor>> arrived.
Refill(it, pg) ==
    [it EXCEPT !.buffer = pg[2],
               !.cursor = pg[3],
               !.more = IsVal(pg[3]),
               !.remaining = IF IsVal(@) THEN Val(@[2] - Len(pg[2])) ELSE @]

---------------------------------------------------------------------------
(* Caller tasks.                                                           *)

AllAbsent == [n \in OptionNames |-> Absent]

NoRequest ==
    [fn |-> "none", resource |-> [class |-> "none", name |-> "none"],
     id |-> Undefined, query |-> EmptyObject, user |-> Undefined]

IdleTask ==
    [pc |-> "idle",         \* idle, awaiting, iter, fetching, done
     kind |-> "none", op |-> "none",
     id |-> Undefined,      \* get, pdf: the id argument
     opts |-> AllAbsent,    \* the options object argument
     args |-> <<>>,         \* new Log: the argument list
     request |-> NoRequest, \* the last request handed to the gateway
     outcome |-> None,      \* what the gateway last returned or threw
     result |-> None,       \* what the call returned or threw
     it |-> None,           \* query: the sequence the caller holds
     yielded |-> <<>>,      \* query: the entities the sequence has yielded
     fetches |-> 0,         \* gateway requests made for this call
     advances |-> 0,        \* query: times the caller advanced the sequence
     chain |-> <<>>]        \* page: the pages of the cursor chain so far

\* The caller is free to start a call.
Ready(t) == task[t].pc = "idle"

\* Faulty variant: an error of the gateway is swallowed and null returned.
getReturnNullOnError(outcome) == IF IsErr(outcome) THEN Null ELSE outcome

\* `return rest.getId(...)`: the caller gets what the gateway returned or threw.
getReturn(outcome) == outcome

\* `return rest.getPage(...)`
pageReturn(outcome) == outcome

\* `return rest.getPdf(...)`
pdfReturn(outcome) == outcome

\* `return rest.getList(...)`: the caller gets the sequence itself.
queryReturn(sequence) == sequence

Returned(op, outcome) ==
    CASE op = "get" -> getReturn(outcome)
      [] op = "pdf" -> pdfReturn(outcome)
      [] op = "page" -> pageReturn(outcome)

\* The page call continues the cursor chain of the task's previous page call.
Continues(t, kind, opts) ==
    /\ task[t].pc = "done"
    /\ task[t].op = "page"
    /\ task[t].kind = kind
    /\ task[t].result[1] = "page"
    /\ IsVal(task[t].result[3])
    /\ opts = [task[t].opts EXCEPT !["cursor"] = task[t].result[3]]

---------------------------------------------------------------------------
(* Operations.                                                             *)

\* exports.get = async function (id, {user} = {})
get(t, kind, id, opts) ==
    /\ Ready(t)
    /\ task' = [task EXCEPT ![t] =
            [IdleTask EXCEPT !.pc = "awaiting", !.kind = kind, !.op = "get",
                             !.id = id, !.opts = opts,
                             !.request = [fn |-> "getId", resource |-> resource[kind],
                                          id |-> id, query |-> EmptyObject,
                                          user |-> idUser(opts)],
                             !.fetches = 1]]
    /\ UNCHANGED <<remote, resource>>

\* Faulty variant: pdf rewrites the name of the shared descriptor.
pdfRenamesResource(t, id, opts) ==
    /\ Ready(t)
    /\ resource' = [resource EXCEPT !["Invoice"].name = "InvoiceLogPdf"]
    /\ task' = [task EXCEPT ![t] =
            [IdleTask EXCEPT !.pc = "awaiting", !.kind = "Invoice", !.op = "pdf",
                             !.id = id, !.opts = opts,
                             !.request = [fn |-> "getPdf", resource |-> resource'["Invoice"],
                                          id |-> id, query |-> EmptyObject,
                                          user |-> idUser(opts)],
                             !.fetches = 1]]
    /\ UNCHANGED remote

\* exports.pdf = async function (id, {user} = {})     (invoice log only)
pdf(t, id, opts) ==
    /\ Ready(t)
    /\ task' = [task EXCEPT ![t] =
            [IdleTask EXCEPT !.pc = "awaiting", !.kind = "Invoice", !.op = "pdf",
                             !.id = id, !.opts = opts,
                             !.request = [fn |-> "getPdf", resource |-> resource["Invoice"],
                                          id |-> id, query |-> EmptyObject,
                                          user |-> idUser(opts)],
                             !.fetches = 1]]
    /\ UNCHANGED <<remote, resource>>

\* Faulty variant: page hands its query object to rest.getList, as query does.
pageViaList(t, kind, opts) ==
    /\ Ready(t)
    /\ task' = [task EXCEPT ![t] =
            [IdleTask EXCEPT !.pc = "iter", !.kind = kind, !.op = "page",
                             !.opts = opts,
                             !.it = NewSequence(resource[kind], pageFilter(kind, opts),
                                                listUser(kind, opts))]]
    /\ UNCHANGED <<remote, resource>>

\* exports.page = async function ({ cursor, limit, ... } = {})
page(t, kind, opts) ==
    /\ Ready(t) \/ Continues(t, kind, opts)
    /\ task' = [task EXCEPT ![t] =
            [IdleTask EXCEPT !.pc = "awaiting", !.kind = kind, !.op = "page",
                             !.opts = opts,
                             !.request = [fn |-> "getPage", resource |-> resource[kind],
                                          id |-> Undefined,
                                          query |-> pageFilter(kind, opts),
                                          user |-> listUser(kind, opts)],
                             !.fetches = 1,
                             !.chain = IF Continues(t, kind, opts)
                                       THEN task[t].chain ELSE <<>>]]
    /\ UNCHANGED <<remote, resource>>

\* Faulty variant: query fetches the first page before it returns.
queryEager(t, kind, opts) ==
    /\ Ready(t)
    /\ LET it == NewSequence(resource[kind], queryFilter(kind, opts), listUser(kind, opts)) IN
       task' = [task EXCEPT ![t] =
            [IdleTask EXCEPT !.pc = "fetching", !.kind = kind, !.op = "query",
                             !.opts = opts,
                             !.it = it,
                             !.fetches = 1,
                             !.request = [fn |-> "getList", resource |-> it.resource,
                                          id |-> Undefined,
                                          query |-> NextPageQuery(it),
                                          user |-> it.user]]]
    /\ UNCHANGED <<remote, resource>>

\* exports.query = async function ({ limit, ... } = {}): the sequence is
\* returned as rest.getList made it; nothing is fetched.
query(t, kind, opts) ==
    /\ Ready(t)
    /\ task' = [task EXCEPT ![t] =
            [IdleTask EXCEPT !.pc = "iter", !.kind = kind, !.op = "query",
                             !.opts = opts,
                             !.it = queryReturn(NewSequence(resource[kind],
                                                            queryFilter(kind, opts),
                                                            listUser(kind, opts)))]]
    /\ UNCHANGED <<remote, resource>>

\* new Log(...): the entity, or the error the constructor threw.
construct(t, kind, args) ==
    /\ Ready(t)
    /\ task' = [task EXCEPT ![t] =
            [IdleTask EXCEPT !.pc = "done", !.kind = kind, !.op = "new",
                             !.args = args,
                             !.result = NewLog(kind, args)]]
    /\ UNCHANGED <<remote, resource>>

\* The caller is done with the result of its call.
Return(t) ==
    /\ task[t].pc = "done"
    /\ task' = [task EXCEPT ![t] = IdleTask]
    /\ UNCHANGED <<remote, resource>>

\* The gateway answers the request of get, pdf or page, or fails with one
\* of `failures`.
Respond(t, failures) ==
    /\ task[t].pc = "awaiting"
    /\ \E outcome \in {Answer(task[t].request)} \cup failures :
          task' = [task EXCEPT ![t] =
              [@ EXCEPT !.pc = "done",
                        !.outcome = outcome,
                        !.result = Returned(task[t].op, outcome),
                        !.chain = IF task[t].op = "page" /\ outcome[1] = "page"
                                  THEN Append(@, outcome[2]) ELSE @]]
    /\ UNCHANGED <<remote, resource>>

\* The caller advances the sequence: the next buffered entity, the end of
\* the sequence, or a page fetch that the caller waits for.
Advance(t) ==
    /\ task[t].pc = "iter"
    /\ LET it == task[t].it IN
       task' = [task EXCEPT ![t] =
           IF NeedsFetch(it)
           THEN [@ EXCEPT !.pc = "fetching",
                          !.advances = @ + 1,
                          !.fetches = @ + 1,
                          !.request = [fn |-> "getList", resource |-> it.resource,
                                       id |-> Undefined,
                                       query |-> NextPageQuery(it),
                                       user |-> it.user]]
           ELSE IF it.buffer # <<>>
           THEN [@ EXCEPT !.advances = @ + 1,
                          !.yielded = Append(@, Head(it.buffer)),
                          !.it = [it EXCEPT !.buffer = Tail(@)]]
           ELSE [@ EXCEPT !.pc = "done",
                          !.advances = @ + 1,
                          !.result = <<"end">>]]
    /\ UNCHANGED <<remote, resource>>

\* The page the sequence waits for arrives (or the fetch fails): the
\* pending advance yields its first entity, ends the sequence, or throws.
PageArrives(t, failures) ==
    /\ task[t].pc = "fetching"
    /\ \E outcome \in {Answer(task[t].request)} \cup failures :
          task' = [task EXCEPT ![t] =
              IF IsErr(outcome)
              THEN [@ EXCEPT !.pc = "done", !.outcome = outcome, !.result = outcome]
              ELSE IF outcome[2] = <<>>
              THEN [@ EXCEPT !.pc = "done", !.outcome = outcome, !.result = <<"end">>,
                             !.it = Refill(task[t].it, outcome)]
              ELSE [@ EXCEPT !.pc = "iter",
                             !.outcome = outcome,
                             !.yielded = Append(@, Head(outcome[2])),
                             !.it = [Refill(task[t].it, outcome) EXCEPT !.buffer = Tail(@)]]]
    /\ UNCHANGED <<remote, resource>>

---------------------------------------------------------------------------
(* The remote data and the arguments callers pass.                         *)

\* Event vocabulary of each kind (from the class documentation).
EventTypes(kind) ==
    CASE kind = "Invoice" -> <<"registered", "paid">>
      [] kind = "CorporateCard" -> <<"blocked", "canceled">>
      [] kind = "UtilityPayment" -> <<"processing", "success">>

\* The i-th raw record of a kind's collection; `flip` shifts the types.
RawRecord(kind, i, flip) ==
    [f \in EntityFields(kind) |->
        CASE f = "id" -> Val(i)
          [] f = "type" -> Val(EventTypes(kind)[((i + flip) % 2) + 1])
          [] f = "created" -> Val(<<2020, 3, 10 + (i % 3)>>)
          [] f = "errors" -> Val(<<>>)
          [] OTHER -> Val(1 + ((i \div 2) % 2))]

RemoteSizes ==
    (0..MaxSmall) \cup (PageCap..(PageCap + MaxExtra)) \cup {2 * PageCap + MaxExtra}

RemoteOfSize(n, flip) ==
    [name \in ResourceNames |-> [i \in 1..n |-> RawRecord(KindOfName(name), i, flip)]]

\* Ids passed to get and pdf: Val(0) is the id of no record.
CallIds == {Val(0), Val(1), Val(2)}

UserValues == {Absent, Null, Val("project")}

LimitValues == {Absent, Null} \cup {Val(n) : n \in {0, 1, 2, PageCap, PageCap + 1}}

TypesValues(kind) ==
    {Absent, Null, Val({EventTypes(kind)[2]}),
     Val({EventTypes(kind)[1], EventTypes(kind)[2]})}

\* One present value for each of the other options.
OtherOptions(kind) ==
    {<<"after", Val(<<2020, 3, 11>>)>>, <<"before", Val(<<2020, 3, 11>>)>>,
     <<ParentIdsField(kind), Val({1})>>, <<"ids", Val({2, 3})>>,
     <<"user", Val("project")>>, <<"cursor", Val(1)>>}

\* Options objects: every limit with every types filter, and every other
\* option alone, present or null.
OptionObjects(kind) ==
    {[AllAbsent EXCEPT !["limit"] = l, !["types"] = ty] :
        l \in LimitValues, ty \in TypesValues(kind)}
    \cup {[AllAbsent EXCEPT ![o[1]] = o[2]] : o \in OtherOptions(kind)}
    \cup {[AllAbsent EXCEPT ![o[1]] = Null] : o \in OtherOptions(kind)}
    \cup {[AllAbsent EXCEPT ![o[1]] = o[2], !["limit"] = Val(2)] : o \in OtherOptions(kind)}

UserObjects == {[AllAbsent EXCEPT !["user"] = u] : u \in UserValues}

\* page takes a limit between 1 and PageCap or none (a larger one is
\* cut to PageCap by the gateway).
PageObjects(kind) ==
    {o \in OptionObjects(kind) : IsVal(o["limit"]) => o["limit"][2] >= 1}

\* Timestamp strings no date can be parsed from.
BadStamps == {Val(<<2020, 2, 30>>), Val(<<2020, 13, 1>>), Val(<<>>)}

\* Raw records: the well-formed ones, and ones with a malformed timestamp.
RawRecords(kind) ==
    {RawRecord(kind, i, 0) : i \in 1..MaxSmall}
    \cup {[RawRecord(kind, 1, 0) EXCEPT !["created"] = b] : b \in BadStamps}

\* Argument lists of new Log: the raw record as one object and, for the
\* utility payment log, also its fields in the order of the signature.
LogArgs(kind) ==
    {<<Obj(r)>> : r \in RawRecords(kind)}
    \cup (IF kind = "UtilityPayment"
          THEN {<<r["created"], r["type"], r["errors"], r["payment"], r["id"]>> :
                    r \in RawRecords(kind)}
          ELSE {})

---------------------------------------------------------------------------
(* One caller making calls one after the other.                            *)

Caller == CHOOSE t \in Tasks : \A u \in Tasks : t <= u

Init ==
    /\ \E n \in RemoteSizes :
          \E flip \in (IF n <= MaxSmall THEN {0, 1} ELSE {0}) :
             remote = RemoteOfSize(n, flip)
    /\ resource = [k \in Kinds |-> ResourceOf(k)]
    /\ task = [t \in Tasks |-> IdleTask]

Next ==
    \/ \E k \in Kinds, id \in CallIds, o \in UserObjects : get(Caller, k, id, o)
    \/ \E id \in CallIds, o \in UserObjects : pdf(Caller, id, o)
    \/ \E k \in Kinds : \E o \in PageObjects(k) : page(Caller, k, o)
    \/ \E k \in Kinds :
          /\ Continues(Caller, k, [task[Caller].opts EXCEPT !["cursor"] = task[Caller].result[3]])
          /\ page(Caller, k, [task[Caller].opts EXCEPT !["cursor"] = task[Caller].result[3]])
    \/ \E k \in Kinds : \E o \in OptionObjects(k) : query(Caller, k, o)
    \/ \E k \in Kinds : \E args \in LogArgs(k) : construct(Caller, k, args)
    \/ Respond(Caller, GatewayFailures)
    \/ Advance(Caller)
    \/ PageArrives(Caller, GatewayFailures)
    \/ Return(Caller)

Spec == Init /\ [][Next]_vars

---------------------------------------------------------------------------
(* Several callers with calls in flight at the same time.                  *)

TransportFailure == {Err("TransportError")}

InitConcurrent ==
    /\ remote = RemoteOfSize(MaxSmall, 0)
    /\ resource = [k \in Kinds |-> ResourceOf(k)]
    /\ task = [t \in Tasks |-> IdleTask]

NextConcurrent ==
    \E t \in Tasks :
        \/ \E k \in Kinds, id \in {Val(0), Val(1)} : get(t, k, id, AllAbsent)
        \/ pdf(t, Val(1), AllAbsent)
        \/ \E k \in Kinds : page(t, k, [AllAbsent EXCEPT !["limit"] = Val(2)])
        \/ \E k \in Kinds :
              /\ Continues(t, k, [task[t].opts EXCEPT !["cursor"] = task[t].result[3]])
              /\ page(t, k, [task[t].opts EXCEPT !["cursor"] = task[t].result[3]])
        \/ \E k \in Kinds : query(t, k, [AllAbsent EXCEPT !["limit"] = Val(1)])
        \/ Respond(t, TransportFailure)
        \/ Advance(t)
        \/ PageArrives(t, TransportFailure)
        \/ Return(t)

SpecConcurrent == InitConcurrent /\ [][NextConcurrent]_vars

---------------------------------------------------------------------------
(* What a call should produce, read off the caller's own arguments.        *)

\* The filters the caller gave, under the names the kind accepts.
Wanted(kind, opts) ==
    [n \in {"after", "before", "types", ParentIdsField(kind)}
           \cup (IF kind = "CorporateCard" THEN {"ids"} ELSE {}) |-> opts[n]]

\* Every remote entity of the kind that passes the caller's filters.
WantedAll(kind, opts) ==
    LET recs == Filtered(ResourceOf(kind).name, Wanted(kind, opts)) IN
    [i \in 1..Len(recs) |-> ToEntity(ResourceOf(kind), recs[i])]

\* The entities query should yield: the first `limit` of them.
WantedQuery(kind, opts) ==
    LET all == WantedAll(kind, opts) IN
    IF IsVal(opts["limit"]) THEN SubSeq(all, 1, Min(opts["limit"][2], Len(all))) ELSE all

\* Page fetches a fully consumed query needs.
PagesNeeded(kind, opts) ==
    LET n == Len(WantedQuery(kind, opts)) IN
    IF opts["limit"] = Val(0) THEN 0
    ELSE IF n = 0 THEN 1
    ELSE (n + PageCap - 1) \div PageCap

\* The raw record an argument list of new Log was made from.
RawOf(kind, args) ==
    IF args[1][1] = "object" THEN args[1][2]
    ELSE [created |-> args[1], type |-> args[2], errors |-> args[3],
          payment |-> args[4], id |-> args[5]]

Ids(entities) == {entities[i].fields["id"] : i \in 1..Len(entities)}

\* Page fetches made so far for the query the task is running, if any.
QueryFetches(t) == IF task[t].op = "query" THEN task[t].fetches ELSE 0

\* The sequence of the task ended without an error.
Ended(t) == task[t].pc = "done" /\ task[t].result = <<"end">>

---------------------------------------------------------------------------
(* Claims.                                                                 *)

\* C1: query({limit: n}) yields at most n entities, however many pages are
\* walked; with no limit it yields the whole collection and then ends.
C1_QueryRespectsLimit ==
    \A t \in Tasks :
        task[t].op = "query" =>
            /\ IsVal(task[t].opts["limit"]) =>
                   Len(task[t].yielded) <= task[t].opts["limit"][2]
            /\ (Nullish(task[t].opts["limit"]) /\ Ended(t)) =>
                   task[t].yielded = WantedAll(task[t].kind, task[t].opts)

\* A query with a limit above one page, cut off in a collection that has more.
C1_Witness ==
    \E t \in Tasks :
        /\ task[t].op = "query" /\ Ended(t)
        /\ task[t].opts["limit"] = Val(PageCap + 1)
        /\ Len(task[t].yielded) = PageCap + 1
        /\ task[t].fetches = 2
        /\ Len(WantedAll(task[t].kind, task[t].opts)) > PageCap + 1

\* C2: the pages of a cursor chain (same filters, each call with the cursor
\* the previous one returned) are pairwise disjoint, every page that comes
\* with a further cursor brings entities, so the chain reaches a null cursor
\* within as many calls as the collection has entities, plus one.
C2_PageChainDisjointAndFinite ==
    \A t \in Tasks :
        task[t].op = "page" =>
            LET chain == task[t].chain IN
            /\ \A i, j \in 1..Len(chain) : i < j => Ids(chain[i]) \cap Ids(chain[j]) = {}
            /\ \A i \in 1..(Len(chain) - 1) : chain[i] # <<>>
            /\ (task[t].pc = "done" /\ task[t].result[1] = "page" /\ IsVal(task[t].result[3]))
                   => task[t].result[2] # <<>>
            /\ Len(chain) <= Len(Collection(ResourceOf(task[t].kind).name)) + 1

\* A chain of three pages that ended with a null cursor.
C2_Witness ==
    \E t \in Tasks :
        /\ task[t].op = "page" /\ task[t].pc = "done"
        /\ Len(task[t].chain) = 3
        /\ task[t].result[1] = "page" /\ task[t].result[3] = Null
        /\ task[t].result[2] # <<>>

\* C3: a Log built from a valid raw record reads back the record's fields,
\* and created reads back as the parsed timestamp.  (Fails for the utility
\* payment log.)
C3_ConstructionRoundTrip ==
    \A t \in Tasks :
        (task[t].op = "new" /\ task[t].pc = "done") =>
            LET raw == RawOf(task[t].kind, task[t].args) IN
            ~IsErr(checkDate(raw["created"])) =>
                /\ task[t].result[1] = "entity"
                /\ \A f \in EntityFields(task[t].kind) \ {"created"} :
                       task[t].result[2][f] = raw[f]
                /\ task[t].result[2]["created"] = checkDate(raw["created"])

\* C4: a Log cannot be built from a raw record whose timestamp does not
\* parse: construction fails with ValidationError.  (Fails for the utility
\* payment log.)
C4_BadTimestampRejected ==
    \A t \in Tasks :
        (task[t].op = "new" /\ task[t].pc = "done") =>
            LET raw == RawOf(task[t].kind, task[t].args) IN
            IsErr(checkDate(raw["created"])) =>
                task[t].result = Err("ValidationError")

\* C5: an error of the gateway reaches the caller as that same error, after
\* a single request (no retry, no default, no wrapping); get of an id that
\* no record has ends in an error, NotFound unless the gateway failed.
C5_ErrorsPassThrough ==
    \A t \in Tasks :
        /\ IsErr(task[t].outcome) =>
               /\ task[t].pc = "done"
               /\ task[t].result = task[t].outcome
        /\ task[t].op \in {"get", "pdf", "page"} => task[t].fetches = 1
        /\ (task[t].op = "get" /\ task[t].pc = "done"
              /\ \A i \in 1..Len(Collection(ResourceOf(task[t].kind).name)) :
                    Collection(ResourceOf(task[t].kind).name)[i]["id"] # task[t].id)
               => task[t].result \in {Err("NotFound")} \cup GatewayFailures

\* get of an id no record has, answered by the gateway with NotFound.
C5_Witness ==
    \E t \in Tasks :
        /\ task[t].op = "get" /\ task[t].pc = "done"
        /\ task[t].id = Val(0)
        /\ task[t].outcome = Err("NotFound")
        /\ task[t].result = Err("NotFound")

C7_TypesFilter ==
    \A t \in Tasks :
        (task[t].op = "query" /\ IsVal(task[t].opts["types"])) =>
            /\ \A i \in 1..Len(task[t].yielded) :
                   task[t].yielded[i].fields["type"][2] \in task[t].opts["types"][2]
            /\ Ended(t) => task[t].yielded = WantedQuery(task[t].kind, task[t].opts)
            /\ task[t].it.query["types"] = task[t].opts["types"]
            /\ task[t].request.fn = "getList" =>
                   task[t].request.query["types"] = task[t].opts["types"]

\* A query for one type over a collection that also holds the other type.
C7_Witness ==
    \E t \in Tasks :
        /\ task[t].op = "query" /\ Ended(t)
        /\ task[t].opts["types"] = Val({EventTypes(task[t].kind)[2]})
        /\ Len(task[t].yielded) >= 1
        /\ Len(task[t].yielded) < Len(Collection(ResourceOf(task[t].kind).name))

\* C8: passing an option as null sends the gateway the same filter object
\* and user as leaving the option out.  (Fails for the invoice and the
\* corporate card log.)
C8_NullSameAsOmitted ==
    \A t \in Tasks :
        \A f \in OptionNames :
            task[t].opts[f] = Null =>
                LET omitted == [task[t].opts EXCEPT ![f] = Absent] IN
                /\ (task[t].op = "page" /\ task[t].request.fn = "getPage") =>
                       /\ task[t].request.query = pageFilter(task[t].kind, omitted)
                       /\ task[t].request.user = listUser(task[t].kind, omitted)
                /\ (task[t].op = "query" /\ task[t].pc = "iter") =>
                       /\ task[t].it.query = queryFilter(task[t].kind, omitted)
                       /\ task[t].it.user = listUser(task[t].kind, omitted)

\* C9: query fetches nothing by itself; every step that fetches a page for
\* a query is the caller advancing the sequence and fetches one page, and no
\* page is fetched beyond those that hold the entities to yield.
C9_QueryIsLazy ==
    /\ [](\A t \in Tasks :
            task[t].op = "query" =>
                /\ task[t].fetches <= task[t].advances
                /\ task[t].fetches <= PagesNeeded(task[t].kind, task[t].opts))
    /\ [][\A t \in Tasks :
            QueryFetches(t)' > QueryFetches(t) =>
                /\ task[t].pc = "iter"
                /\ QueryFetches(t)' = QueryFetches(t) + 1
                /\ task'[t].advances = task[t].advances + 1]_vars

\* A consumed query that stopped at its limit after two pages, with more
\* entities left in the collection.
C9_Witness ==
    \E t \in Tasks :
        /\ task[t].op = "query" /\ Ended(t)
        /\ task[t].fetches = 2
        /\ task[t].advances > Len(task[t].yielded)
        /\ Len(task[t].yielded) < Len(WantedAll(task[t].kind, task[t].opts))

\* C10: no call changes the module-level descriptors; every request carries
\* the descriptor of its own kind, and two calls with the same arguments get
\* the same request and, unless the gateway failed, the same result,
\* whatever other calls ran in between.
C10_CallsAreIndependent ==
    /\ resource = [k \in Kinds |-> ResourceOf(k)]
    /\ \A t \in Tasks :
           task[t].request.fn # "none" =>
               task[t].request.resource = ResourceOf(task[t].kind)
    /\ \A t, u \in Tasks :
           (/\ task[t].pc = "done" /\ task[u].pc = "done"
            /\ task[t].op = task[u].op /\ task[t].op \in {"get", "pdf", "page"}
            /\ task[t].kind = task[u].kind
            /\ task[t].id = task[u].id
            /\ task[t].opts = task[u].opts)
               => /\ task[t].request = task[u].request
                  /\ (IsErr(task[t].outcome) \/ IsErr(task[u].outcome)
                         \/ task[t].result = task[u].result)

\* Two tasks that made the same page call, both answered.
C10_Witness ==
    \E t, u \in Tasks :
        /\ t # u
        /\ task[t].pc = "done" /\ task[u].pc = "done"
        /\ task[t].op = "page" /\ task[u].op = "page"
        /\ task[t].kind = task[u].kind
        /\ task[t].opts = task[u].opts
        /\ IsVal(task[t].opts["cursor"])
        /\ task[t].result[1] = "page" /\ task[t].result = task[u].result

====
